---- MODULE Spec2Model ----
(***************************************************************************)
(* A model of rent_or_buy.py: the Scenario orchestrator with its renting   *)
(* and buying simulations, the Asset and Mortgage objects, and the tax     *)
(* computations.                                                           *)
(*                                                                         *)
(* Numbers.  The program computes with Python numbers.  The model computes *)
(* with exact rationals <<numerator, denominator>> in lowest terms with a  *)
(* positive denominator, so that "exactly equal" and "exactly zero" mean   *)
(* what they say; <<1, 0>> stands for numpy's inf.                         *)
(*                                                                         *)
(* Dates.  A date is a record [year, month, day]; adding months is         *)
(* dateutil's relativedelta(months=n), which clips the day to the length   *)
(* of the target month.                                                    *)
(*                                                                         *)
(* Exceptions.  A failing call leaves its exception in `raised`; the       *)
(* fields a call assigned before it failed stay assigned.                  *)
(***************************************************************************)
EXTENDS Integers, Sequences, FiniteSets, TLC

VARIABLES
    args,       \* the arguments of Scenario(...) and the clock's date
    self,       \* the Scenario instance: its attributes
    pc,         \* where the caller is: "args", "idle", "renting", "buying", "init_failed"
    n_months,   \* the loop variable of the running simulation
    call,       \* the method called last
    raised,     \* the exception the last call ended with, or NoException
    mort,       \* a Mortgage object driven on its own
    mpc         \* where the Mortgage's driver is: "off", "new", "ready", "failed"

vars == <<args, self, pc, n_months, call, raised, mort, mpc>>

----------------------------------------------------------------------------
(* Exact rational arithmetic: Python's +, -, *, /, **, <=, min.            *)

\* F applied to the value of x.  Python evaluates the operands of an
\* operator before it applies it; so does every operator below.
Then(x, F(_)) == CHOOSE r \in {F(v) : v \in {x}} : TRUE

Abs(x) == IF x < 0 THEN -x ELSE x

RECURSIVE GCD(_, _)
GCD(a, b) == IF b = 0 THEN a ELSE GCD(b, a % b)

\* n / d in lowest terms
Rat(n, d) ==
    Then(<<n, d, GCD(Abs(n), Abs(d))>>, LAMBDA p :
        IF p[2] < 0 THEN <<(-p[1]) \div p[3], (-p[2]) \div p[3]>>
        ELSE <<p[1] \div p[3], p[2] \div p[3]>>)

R(i) == <<i, 1>>

Inf == <<1, 0>>

RAdd(a, b) ==
    Then(<<a, b, GCD(a[2], b[2])>>, LAMBDA p :
        Rat(p[1][1] * (p[2][2] \div p[3]) + p[2][1] * (p[1][2] \div p[3]),
            p[1][2] * (p[2][2] \div p[3])))

RNeg(a) == Then(a, LAMBDA x : <<-x[1], x[2]>>)

RSub(a, b) == RAdd(a, RNeg(b))

RMul(a, b) ==
    Then(<<a, b, GCD(Abs(a[1]), b[2]), GCD(Abs(b[1]), a[2])>>, LAMBDA p :
        Rat((p[1][1] \div p[3]) * (p[2][1] \div p[4]),
            (p[1][2] \div p[4]) * (p[2][2] \div p[3])))

\* a / b for b # 0; the callers raise ZeroDivisionError when b = 0
RDiv(a, b) == RMul(a, Then(b, LAMBDA y : Rat(y[2], y[1])))

RLe(a, b) == RSub(a, b)[1] <= 0

RLt(a, b) == RSub(a, b)[1] < 0

RMin(a, b) ==
    Then(<<a, b>>, LAMBDA p :
        IF p[2] = Inf THEN p[1] ELSE IF p[1] = Inf THEN p[2]
        ELSE IF RLe(p[1], p[2]) THEN p[1] ELSE p[2])

\* a ** k for an integer k >= 0
RPow(a, k) == IF k = 0 THEN R(1) ELSE <<a[1] ^ k, a[2] ^ k>>

----------------------------------------------------------------------------
(* Calendar dates and relativedelta(months=n).                             *)

IsLeap(y) == (y % 4 = 0) /\ ((y % 100 # 0) \/ (y % 400 = 0))

DaysInMonth(y, m) ==
    IF m = 2 THEN (IF IsLeap(y) THEN 29 ELSE 28)
    ELSE IF m \in {4, 6, 9, 11} THEN 30 ELSE 31

AddMonths(d, n) ==
    LET k == (d.month - 1) + n
        y == d.year + (k \div 12)
        m == (k % 12) + 1
        last == DaysInMonth(y, m)
    IN  [year |-> y, month |-> m, day |-> IF d.day < last THEN d.day ELSE last]

----------------------------------------------------------------------------
(* Python values: dicts, unassigned attributes, exceptions.                *)

Unset == <<0, 0>>

NoDate == [year |-> 0, month |-> 0, day |-> 0]

EmptyDict == [d \in {} |-> Unset]

\* dict[k] = v
DictSet(f, k, v) == [x \in (DOMAIN f) \cup {k} |-> IF x = k THEN v ELSE f[x]]

Exc(type, msg, a, b) == [type |-> type, msg |-> msg, a |-> a, b |-> b]

NoException == Exc("none", "", Unset, Unset)

Ok(obj) == [obj |-> obj, raised |-> NoException]

Fail(obj, e) == [obj |-> obj, raised |-> e]

----------------------------------------------------------------------------
(* class Asset                                                             *)

NoAsset == [date |-> NoDate, value |-> EmptyDict, monthly_rate |-> Unset]

Asset_init(initial_value, monthly_rate, initial_date) ==
    [date |-> initial_date,
     value |-> DictSet(EmptyDict, initial_date, initial_value),
     monthly_rate |-> monthly_rate]

Asset_withdraw(a, amount) ==
    LET extra == RSub(amount, a.value[a.date])
    IN  IF ~RLe(amount, a.value[a.date])
        THEN Fail(a, Exc("AssertionError", "insufficient capital", extra, Unset))
        ELSE Ok([a EXCEPT !.value[a.date] = RSub(@, amount)])

Asset_invest(a, amount) == [a EXCEPT !.value[a.date] = RAdd(@, amount)]

Asset_update(a) ==
    LET next_date == AddMonths(a.date, 1)
    IN  [a EXCEPT !.value = DictSet(a.value, next_date,
                                    RMul(a.value[a.date], RAdd(R(1), a.monthly_rate))),
                  !.date = next_date]

----------------------------------------------------------------------------
(* class Mortgage                                                          *)

NoMortgage ==
    [initial_date |-> NoDate, date |-> NoDate, monthly_rate |-> Unset,
     initial_value |-> Unset, value |-> EmptyDict, duration |-> 0,
     monthly_payment |-> Unset]

Mortgage_init(initial_value, monthly_rate, duration, initial_date) ==
    [initial_date |-> initial_date, date |-> initial_date,
     monthly_rate |-> monthly_rate, initial_value |-> initial_value,
     value |-> DictSet(EmptyDict, initial_date, initial_value),
     duration |-> duration, monthly_payment |-> Unset]

\* 1 / (1 + r) raises when r = -1; the quotient raises when discount_factor = 1
\* (r = 0); the payment raises when coeff = 0 (duration = 0).
Mortgage_compute_payment(m) ==
    LET zde == Exc("ZeroDivisionError", "division by zero", Unset, Unset)
        one_plus == RAdd(R(1), m.monthly_rate)
        discount_factor == RDiv(R(1), one_plus)
        denom == RSub(R(1), discount_factor)
        coeff == RDiv(RSub(R(1), RPow(discount_factor, m.duration)), denom)
    IN  IF one_plus[1] = 0 THEN Fail(m, zde)
        ELSE IF denom[1] = 0 THEN Fail(m, zde)
        ELSE IF coeff[1] = 0 THEN Fail(m, zde)
        ELSE Ok([m EXCEPT !.monthly_payment = RDiv(m.initial_value, coeff)])

\* as Mortgage_update, with the interest applied before the payment is taken
Mortgage_update_interest_first(m) ==
    LET grown == RMul(m.value[m.date], RAdd(R(1), m.monthly_rate))
        next_date == AddMonths(m.date, 1)
    IN  [m EXCEPT !.value = DictSet(m.value, next_date,
                                    RSub(grown, m.monthly_payment)),
                  !.date = next_date]

Mortgage_update(m) ==
    LET paid == RSub(m.value[m.date], m.monthly_payment)
        next_date == AddMonths(m.date, 1)
    IN  [m EXCEPT !.value = DictSet(DictSet(m.value, m.date, paid), next_date,
                                    RMul(paid, RAdd(R(1), m.monthly_rate))),
                  !.date = next_date]

----------------------------------------------------------------------------
(* class Scenario                                                          *)

\* The monthly rates the model draws from; the yearly rates are the ones
\* whose twelfth root is one of them, so that the root stays rational.
MonthlyRates == {R(0), R(1)}

\* (1 + yearly_rate)**(1/12) - 1: the m with (1 + m)**12 = 1 + yearly_rate
compute_monthly_rate(yearly_rate) ==
    CHOOSE m \in MonthlyRates : RPow(RAdd(R(1), m), 12) = RAdd(R(1), yearly_rate)

\* as create_monthly_series, over range(horizon + 1)
create_monthly_series_inclusive(horizon, initial_value, initial_date, yearly_rate) ==
    LET key(n) == AddMonths(initial_date, n)
        months == 0 .. horizon
    IN  [d \in {key(n) : n \in months} |->
            LET k == CHOOSE n \in months : key(n) = d
            IN  RMul(initial_value, RPow(RAdd(R(1), yearly_rate), k \div 12))]

create_monthly_series(horizon, initial_value, initial_date, yearly_rate) ==
    LET key(n) == AddMonths(initial_date, n)
        months == 0 .. (horizon - 1)
    IN  [d \in {key(n) : n \in months} |->
            LET k == CHOOSE n \in months : key(n) = d
            IN  RMul(initial_value, RPow(RAdd(R(1), yearly_rate), k \div 12))]

check_data(s) ==
    LET ratio == RDiv(s.downpayment, s.house_price)
    IN  IF ~RLe(s.downpayment, s.initial_capital)
        THEN Exc("AssertionError", "downpayment > initial capital",
                 s.downpayment, s.initial_capital)
        ELSE IF s.house_price[1] = 0
        THEN Exc("ZeroDivisionError", "division by zero", Unset, Unset)
        ELSE IF ~RLe(Rat(2, 10), ratio)
        THEN Exc("AssertionError", "Downpayment is less than 20% of house price",
                 RMul(ratio, R(100)), Unset)
        ELSE NoException

\* Scenario(...): the instance with the attributes assigned before check_data,
\* and municipal_taxes assigned after it when it passes
Scenario_init(a) ==
    LET s == [today |-> a.now,
              initial_capital |-> a.capital,
              horizon |-> a.horizon,
              rent |-> create_monthly_series(a.horizon, a.monthly_rent, a.now,
                                             a.rent_gr_rate),
              housing_budget |-> create_monthly_series(a.horizon, a.housing_budget,
                                                       a.now, a.housing_gr_rate),
              house_price |-> a.house_price,
              downpayment |-> a.downpayment,
              housing_gr_rate |-> a.housing_gr_rate,
              rent_gr_rate |-> a.rent_gr_rate,
              mortgage_rate |-> a.mortgage_rate,
              return_rate |-> a.return_rate,
              monthly_rate |-> compute_monthly_rate(a.return_rate),
              monthly_housing_gr_rate |-> compute_monthly_rate(a.housing_gr_rate),
              monthly_mortgage_rate |-> compute_monthly_rate(a.mortgage_rate),
              municipal_taxes |-> EmptyDict,
              capital |-> NoAsset,
              house |-> NoAsset,
              mortgage |-> NoMortgage,
              transfer_tax |-> Unset,
              net_asset_position |-> EmptyDict]
    IN  Fail(s, check_data(s))

cutoffs == <<R(0), R(50000), R(250000), R(500000), R(1000000), Inf>>

rates == <<Rat(5, 1000), Rat(10, 1000), Rat(15, 1000), Rat(20, 1000), Rat(25, 1000)>>

\* as transfer_tax_loop, without the min: each bracket reached is taxed on
\* the whole of the price above its lower cutoff
RECURSIVE transfer_tax_loop_no_min(_, _, _)
transfer_tax_loop_no_min(house_price, i, amount) ==
    IF i > Len(rates) THEN amount
    ELSE IF RLt(cutoffs[i], house_price)
         THEN Then(RAdd(amount, RMul(rates[i], RSub(house_price, cutoffs[i]))),
                   LAMBDA sum : transfer_tax_loop_no_min(house_price, i + 1, sum))
         ELSE amount

\* the loop of compute_transfer_tax from bracket i on, with its break
RECURSIVE transfer_tax_loop(_, _, _)
transfer_tax_loop(house_price, i, amount) ==
    IF i > Len(rates) THEN amount
    ELSE LET lower_cutoff == cutoffs[i]
             upper_cutoff == cutoffs[i + 1]
         IN  IF RLt(lower_cutoff, house_price)
             THEN Then(RAdd(amount, RMul(rates[i],
                           RSub(RMin(house_price, upper_cutoff), lower_cutoff))),
                       LAMBDA sum : transfer_tax_loop(house_price, i + 1, sum))
             ELSE amount

compute_transfer_tax(s) ==
    [s EXCEPT !.transfer_tax = transfer_tax_loop(s.house_price, 1, R(0))]

taxe_fonciere_generale == Rat(5712, 1000000)

taux_dettes_anciennes_villes == Rat(281, 1000000)

taxe_speciale_eau == Rat(975, 1000000)

taxe_relative_ARTM == Rat(23, 1000000)

\* raises KeyError when the house has no value under `date`
compute_municipal_taxes(s, date) ==
    LET rate == RAdd(RAdd(RAdd(taxe_fonciere_generale, taux_dettes_anciennes_villes),
                          taxe_speciale_eau), taxe_relative_ARTM)
    IN  IF date \notin DOMAIN s.house.value
        THEN Fail(s, Exc("KeyError", "house.value", Unset, Unset))
        ELSE Ok([s EXCEPT !.municipal_taxes =
                    DictSet(@, date, RMul(rate, s.house.value[date]))])

\* as compute_net_asset_position, keeping the entries computed earlier
compute_net_asset_position_incremental(s) ==
    [s EXCEPT !.net_asset_position =
        [date \in DOMAIN s.capital.value |->
            IF date \in DOMAIN s.net_asset_position
            THEN s.net_asset_position[date]
            ELSE RSub(RAdd(s.capital.value[date], s.house.value[date]),
                      s.mortgage.value[date])]]

compute_net_asset_position(s) ==
    [s EXCEPT !.net_asset_position =
        [date \in DOMAIN s.capital.value |->
            RSub(RAdd(s.capital.value[date], s.house.value[date]),
                 s.mortgage.value[date])]]

\* as renting_setup, keeping the capital Asset of an earlier run
renting_setup_reuse(s) ==
    IF s.capital = NoAsset
    THEN [s EXCEPT !.capital = Asset_init(s.initial_capital, s.monthly_rate, s.today)]
    ELSE s

renting_setup(s) ==
    [s EXCEPT !.capital = Asset_init(s.initial_capital, s.monthly_rate, s.today)]

\* as rent_affordable, with < for <=
rent_affordable_strict(current_rent, amount_available) ==
    RLt(current_rent, amount_available)

\* the condition simulate_renting asserts each month
rent_affordable(current_rent, amount_available) ==
    RLe(current_rent, amount_available)

\* one iteration of simulate_renting's loop
renting_month(s, n) ==
    Then(AddMonths(s.today, n), LAMBDA date :
        IF date \notin DOMAIN s.capital.value
        THEN Fail(s, Exc("KeyError", "capital.value", Unset, Unset))
        ELSE
    Then(RAdd(s.capital.value[date], s.housing_budget[date]), LAMBDA amount_available :
        LET current_rent == s.rent[date]
        IN  IF ~rent_affordable(current_rent, amount_available)
            THEN Fail(s, Exc("AssertionError", "rent too expensive",
                             current_rent, amount_available))
            ELSE
    Then(IF RLe(current_rent, s.housing_budget[date])
         THEN Ok(Asset_invest(s.capital, RSub(s.housing_budget[date], current_rent)))
         ELSE Asset_withdraw(s.capital, RSub(current_rent, s.housing_budget[date])),
         LAMBDA c :
        IF c.raised # NoException
        THEN Fail(s, c.raised)
        ELSE Ok([s EXCEPT !.capital = Asset_update(c.obj)]))))

RECURSIVE renting_loop(_, _)
renting_loop(s, n) ==
    IF n >= s.horizon THEN Ok(s)
    ELSE Then(renting_month(s, n), LAMBDA r :
             IF r.raised # NoException THEN r ELSE renting_loop(r.obj, n + 1))

\* the whole method, run to its end or to its exception
simulate_renting(s) == Then(renting_setup(s), LAMBDA s1 : renting_loop(s1, 0))

\* as mortgage_affordable, on the whole amount to pay
mortgage_affordable_total(monthly_payment, amount_to_pay, amount_available) ==
    RLe(amount_to_pay, amount_available)

\* the condition simulate_buying asserts each month: on the mortgage payment,
\* not on amount_to_pay, which the message reports
mortgage_affordable(monthly_payment, amount_to_pay, amount_available) ==
    RLe(monthly_payment, amount_available)

\* simulate_buying up to its loop
buying_setup(s) ==
    Then(Asset_init(s.initial_capital, s.monthly_rate, s.today), LAMBDA c0 :
    Then(Asset_withdraw(c0, s.downpayment), LAMBDA w1 :
        IF w1.raised # NoException
        THEN Fail([s EXCEPT !.capital = c0], w1.raised)
        ELSE
    Then([s EXCEPT !.capital = w1.obj,
                   !.house = Asset_init(s.house_price, s.monthly_housing_gr_rate,
                                        s.today),
                   !.mortgage = Mortgage_init(RSub(s.house_price, s.downpayment),
                                              s.monthly_mortgage_rate,
                                              s.horizon, s.today)], LAMBDA s1 :
    Then(Mortgage_compute_payment(s1.mortgage), LAMBDA p :
        IF p.raised # NoException
        THEN Fail(s1, p.raised)
        ELSE
    Then(compute_transfer_tax([s1 EXCEPT !.mortgage = p.obj]), LAMBDA s2 :
    Then(Asset_withdraw(s2.capital, s2.transfer_tax), LAMBDA w2 :
        IF w2.raised # NoException
        THEN Fail(s2, w2.raised)
        ELSE Ok([s2 EXCEPT !.capital = w2.obj])))))))

\* one iteration of simulate_buying's loop
buying_month(s, n) ==
    Then(AddMonths(s.today, n), LAMBDA date :
    Then(compute_municipal_taxes(s, date), LAMBDA t :
        IF t.raised # NoException
        THEN t
        ELSE IF date \notin DOMAIN t.obj.capital.value
        THEN Fail(t.obj, Exc("KeyError", "capital.value", Unset, Unset))
        ELSE
    Then(RAdd(t.obj.capital.value[date], t.obj.housing_budget[date]),
         LAMBDA amount_available :
    Then(RAdd(t.obj.mortgage.monthly_payment, t.obj.municipal_taxes[date]),
         LAMBDA amount_to_pay :
        IF ~mortgage_affordable(t.obj.mortgage.monthly_payment, amount_to_pay,
                                amount_available)
        THEN Fail(t.obj, Exc("AssertionError", "mortgage too expensive",
                             amount_to_pay, amount_available))
        ELSE
    Then(IF RLe(amount_to_pay, t.obj.housing_budget[date])
         THEN Ok(Asset_invest(t.obj.capital,
                              RSub(t.obj.housing_budget[date], amount_to_pay)))
         ELSE Asset_withdraw(t.obj.capital,
                             RSub(amount_to_pay, t.obj.housing_budget[date])),
         LAMBDA c :
        IF c.raised # NoException
        THEN Fail(t.obj, c.raised)
        ELSE
    Then([t.obj EXCEPT !.capital = Asset_update(c.obj),
                       !.mortgage = Mortgage_update(t.obj.mortgage),
                       !.house = Asset_update(t.obj.house)], LAMBDA s2 :
        Ok(compute_net_asset_position(s2))))))))

RECURSIVE buying_loop(_, _)
buying_loop(s, n) ==
    IF n >= s.horizon THEN Ok(s)
    ELSE Then(buying_month(s, n), LAMBDA r :
             IF r.raised # NoException THEN r ELSE buying_loop(r.obj, n + 1))

\* the whole method, run to its end or to its exception
simulate_buying(s) ==
    Then(buying_setup(s), LAMBDA r :
        IF r.raised # NoException THEN r ELSE buying_loop(r.obj, 0))

----------------------------------------------------------------------------
(* The inputs the model draws from.                                        *)

MaxHorizon == 3

Capitals == {80000, 100000}

Budgets == {2000, 305000, 400000}

Rents == {1500, 52000, 1000000}

HousePrices == {0, 100000, 400000}

Downpayments == {10000, 80000, 100000}

\* <<housing_gr_rate, rent_gr_rate, mortgage_rate, return_rate>> per year
RateProfiles ==
    {<<R(0), R(0), R(0), R(0)>>,
     <<R(0), R(0), R(4095), R(0)>>,
     <<R(0), R(4095), R(4095), R(4095)>>,
     <<R(4095), R(4095), R(4095), R(4095)>>}

\* datetime.now().date(): a mid-month day and two month ends
Todays ==
    {[year |-> 2023, month |-> 1, day |-> 15],
     [year |-> 2023, month |-> 1, day |-> 31],
     [year |-> 2023, month |-> 12, day |-> 31]}

Arguments ==
    {[capital |-> R(c), housing_budget |-> R(b), monthly_rent |-> R(r),
      house_price |-> R(hp), downpayment |-> R(dp),
      housing_gr_rate |-> rp[1], rent_gr_rate |-> rp[2],
      mortgage_rate |-> rp[3], return_rate |-> rp[4],
      horizon |-> h, now |-> t] :
        c \in Capitals, b \in Budgets, r \in Rents, hp \in HousePrices,
        dp \in Downpayments, rp \in RateProfiles, h \in 1 .. MaxHorizon, t \in Todays}

NoArguments == [now |-> NoDate]

NoScenario == [today |-> NoDate]

----------------------------------------------------------------------------
(* The caller of one Scenario: construction, then any sequence of runs.     *)

Init ==
    /\ args \in Arguments
    /\ self = NoScenario
    /\ pc = "args"
    /\ n_months = 0
    /\ call = "none"
    /\ raised = NoException
    /\ mort = NoMortgage
    /\ mpc = "off"

Construct ==
    /\ pc = "args"
    /\ LET r == Scenario_init(args)
       IN  /\ raised' = r.raised
           /\ IF r.raised = NoException
              THEN self' = r.obj /\ pc' = "idle"
              ELSE self' = self /\ pc' = "init_failed"
    /\ call' = "__init__"
    /\ UNCHANGED <<args, n_months, mort, mpc>>

AfterMonth(running, n, horizon) == IF n < horizon THEN running ELSE "idle"

StartRenting ==
    /\ pc = "idle"
    /\ self' = renting_setup(self)
    /\ n_months' = 0
    /\ call' = "simulate_renting"
    /\ raised' = NoException
    /\ pc' = AfterMonth("renting", 0, self.horizon)
    /\ UNCHANGED <<args, mort, mpc>>

RentingMonth ==
    /\ pc = "renting"
    /\ LET r == renting_month(self, n_months)
       IN  /\ self' = r.obj
           /\ raised' = r.raised
           /\ IF r.raised = NoException
              THEN /\ n_months' = n_months + 1
                   /\ pc' = AfterMonth("renting", n_months + 1, self.horizon)
              ELSE /\ n_months' = n_months
                   /\ pc' = "idle"
    /\ UNCHANGED <<args, call, mort, mpc>>

StartBuying ==
    /\ pc = "idle"
    /\ LET r == buying_setup(self)
       IN  /\ self' = r.obj
           /\ raised' = r.raised
           /\ pc' = IF r.raised = NoException
                    THEN AfterMonth("buying", 0, self.horizon)
                    ELSE "idle"
    /\ n_months' = 0
    /\ call' = "simulate_buying"
    /\ UNCHANGED <<args, mort, mpc>>

BuyingMonth ==
    /\ pc = "buying"
    /\ LET r == buying_month(self, n_months)
       IN  /\ self' = r.obj
           /\ raised' = r.raised
           /\ IF r.raised = NoException
              THEN /\ n_months' = n_months + 1
                   /\ pc' = AfterMonth("buying", n_months + 1, self.horizon)
              ELSE /\ n_months' = n_months
                   /\ pc' = "idle"
    /\ UNCHANGED <<args, call, mort, mpc>>

Next == Construct \/ StartRenting \/ RentingMonth \/ StartBuying \/ BuyingMonth

Spec == Init /\ [][Next]_vars

----------------------------------------------------------------------------
(* A Mortgage on its own: Mortgage(...), compute_payment(), then update()  *)
(* once a month for the loan's duration, as simulate_buying drives it.     *)

MaxPrincipal == 4

MaxDuration == 3

MortgageRates == {R(0), Rat(1, 2), R(1), R(2)}

Mortgages ==
    {Mortgage_init(R(v), r, n, t) :
        v \in 0 .. MaxPrincipal, r \in MortgageRates, n \in 1 .. MaxDuration,
        t \in Todays}

\* the number of update() calls so far
Updates(m) == Cardinality(DOMAIN m.value) - 1

MortgageInit ==
    /\ mort \in Mortgages
    /\ mpc = "new"
    /\ args = NoArguments
    /\ self = NoScenario
    /\ pc = "off"
    /\ n_months = 0
    /\ call = "Mortgage"
    /\ raised = NoException

MortgageComputePayment ==
    /\ mpc = "new"
    /\ LET r == Mortgage_compute_payment(mort)
       IN  /\ mort' = r.obj
           /\ raised' = r.raised
           /\ mpc' = IF r.raised = NoException THEN "ready" ELSE "failed"
    /\ call' = "compute_payment"
    /\ UNCHANGED <<args, self, pc, n_months>>

MortgageUpdate ==
    /\ mpc = "ready"
    /\ Updates(mort) < mort.duration
    /\ mort' = Mortgage_update(mort)
    /\ call' = "update"
    /\ UNCHANGED <<args, self, pc, n_months, raised, mpc>>

MortgageNext == MortgageComputePayment \/ MortgageUpdate

SpecMortgage == MortgageInit /\ [][MortgageNext]_vars

----------------------------------------------------------------------------
(* compute_transfer_tax on its own, over a range of house prices.          *)

MaxTaxSteps == 100

TaxPrices ==
    {R(12500 * k) : k \in 0 .. MaxTaxSteps}
        \cup {R(1), R(49999), R(50001), Rat(100001, 2), R(250001), R(499999),
              R(999999), R(1000001)}

TaxArguments ==
    [capital |-> R(100000), housing_budget |-> R(2000), monthly_rent |-> R(1500),
     house_price |-> R(400000), downpayment |-> R(80000),
     housing_gr_rate |-> R(0), rent_gr_rate |-> R(0),
     mortgage_rate |-> R(4095), return_rate |-> R(0),
     horizon |-> 1, now |-> [year |-> 2023, month |-> 1, day |-> 15]]

\* a constructed Scenario whose house_price attribute is then set to p
PricedScenario(p) == [Scenario_init(TaxArguments).obj EXCEPT !.house_price = p]

TaxInit ==
    /\ args = TaxArguments
    /\ self \in {PricedScenario(p) : p \in TaxPrices}
    /\ pc = "idle"
    /\ n_months = 0
    /\ call = "__init__"
    /\ raised = NoException
    /\ mort = NoMortgage
    /\ mpc = "off"

ComputeTransferTax ==
    /\ pc = "idle"
    /\ self' = compute_transfer_tax(self)
    /\ pc' = "taxed"
    /\ call' = "compute_transfer_tax"
    /\ UNCHANGED <<args, n_months, raised, mort, mpc>>

TaxNext == ComputeTransferTax

SpecTax == TaxInit /\ [][TaxNext]_vars

----------------------------------------------------------------------------
(* The claims.                                                             *)

Completed(method) == pc = "idle" /\ call = method /\ raised = NoException

\* today, today + 1 month, ..., today + (n - 1) months
MonthKeys(n) == {AddMonths(self.today, k) : k \in 0 .. (n - 1)}

GrownKeys(keys, last) ==
    /\ keys = MonthKeys(self.horizon) \cup {last}
    /\ Cardinality(keys) = self.horizon + 1
    /\ last.year = AddMonths(self.today, self.horizon).year
    /\ last.month = AddMonths(self.today, self.horizon).month

C2_NetAssetPosition ==
    (call = "simulate_buying" /\ pc \in {"buying", "idle"} /\ n_months >= 1) =>
        /\ DOMAIN self.net_asset_position = DOMAIN self.capital.value
        /\ DOMAIN self.net_asset_position = DOMAIN self.house.value
        /\ DOMAIN self.net_asset_position = DOMAIN self.mortgage.value
        /\ \A date \in DOMAIN self.capital.value :
              self.net_asset_position[date] =
                  RSub(RAdd(self.capital.value[date], self.house.value[date]),
                       self.mortgage.value[date])

\* a buying run has completed two months or more
C2_Witness == Completed("simulate_buying") /\ n_months >= 2

\* C3: for a zero-rate Mortgage compute_payment() succeeds with
\* monthly_payment = initial_principal / duration, and after `duration`
\* updates the balance at the current date is zero.
C3_ZeroRateMortgage ==
    (mort.monthly_rate = R(0) /\ mpc # "new") =>
        /\ mpc = "ready"
        /\ mort.monthly_payment = RDiv(mort.initial_value, R(mort.duration))
        /\ Updates(mort) = mort.duration => mort.value[mort.date] = R(0)

\* the claim's brackets: lower bound, upper bound, rate in thousandths
Brackets ==
    <<<<R(0), R(50000), 5>>, <<R(50000), R(250000), 10>>,
      <<R(250000), R(500000), 15>>, <<R(500000), R(1000000), 20>>,
      <<R(1000000), Inf, 25>>>>

\* the sum over brackets i .. 5 whose lower bound the price strictly exceeds
RECURSIVE BracketSum(_, _)
BracketSum(price, i) ==
    IF i > Len(Brackets) THEN R(0)
    ELSE Then(BracketSum(price, i + 1), LAMBDA rest :
             IF RLt(Brackets[i][1], price)
             THEN RAdd(rest, RMul(Rat(Brackets[i][3], 1000),
                                  RSub(RMin(price, Brackets[i][2]), Brackets[i][1])))
             ELSE rest)

\* C4: compute_transfer_tax sets transfer_tax to the progressive bracket sum;
\* tax(0) = 0, tax(50000) = 250, tax(400000) = 4500; the tax is non-decreasing
\* in the house price.
C4_TransferTax ==
    pc = "taxed" =>
        /\ self.transfer_tax = BracketSum(self.house_price, 1)
        /\ self.house_price = R(0) => self.transfer_tax = R(0)
        /\ self.house_price = R(50000) => self.transfer_tax = R(250)
        /\ self.house_price = R(400000) => self.transfer_tax = R(4500)
        /\ \A q \in TaxPrices :
              RLe(q, self.house_price) =>
                  RLe(compute_transfer_tax(PricedScenario(q)).transfer_tax,
                      self.transfer_tax)

\* the tax of a price in the third bracket has been computed
C4_Witness == pc = "taxed" /\ self.house_price = R(400000)

\* C5: construction succeeds if and only if downpayment <= capital and
\* downpayment >= 20% of house_price, and otherwise fails with one of the two
\* invalid-setup conditions.
C5_Construction ==
    pc # "args" =>
        LET valid == /\ RLe(args.downpayment, args.capital)
                     /\ RLe(RMul(Rat(2, 10), args.house_price), args.downpayment)
        IN  /\ (pc # "init_failed") <=> valid
            /\ pc = "init_failed" =>
                  /\ raised.type = "AssertionError"
                  /\ raised.msg \in {"downpayment > initial capital",
                                     "Downpayment is less than 20% of house price"}

\* the month the renting loop is at
LoopDate == AddMonths(self.today, n_months)

C8_BuyingSetup ==
    [][(pc = "idle" /\ call' = "simulate_buying") =>
          LET tax == compute_transfer_tax(self).transfer_tax
              left == RSub(RSub(self.initial_capital, self.downpayment), tax)
          IN  IF RLe(R(0), left)
              THEN /\ raised' = NoException
                   /\ self'.capital.value[self.today] = left
                   /\ self'.house.value[self.today] = self.house_price
                   /\ self'.mortgage.value[self.today] =
                          RSub(self.house_price, self.downpayment)
                   /\ (/\ self.initial_capital = R(100000)
                       /\ self.downpayment = R(80000)
                       /\ self.house_price = R(400000)) =>
                          self'.capital.value[self.today] = R(15500)
              ELSE /\ raised'.msg = "insufficient capital"
                   /\ pc' = "idle"
      ]_vars

\* the balance at the current date
Balance(m) == m.value[m.date]

\* C9 as stated: with monthly_rate > 0, update() turns the balance b into
\* (b - payment) * (1 + rate); the balance is zero after `duration` updates
\* and strictly positive after fewer.
C9_Amortization ==
    [][(mpc = "ready" /\ RLt(R(0), mort.monthly_rate) /\ mort' # mort) =>
          /\ Balance(mort') =
                 RMul(RSub(Balance(mort), mort.monthly_payment),
                      RAdd(R(1), mort.monthly_rate))
          /\ Updates(mort') = mort.duration => Balance(mort') = R(0)
          /\ Updates(mort') < mort.duration => RLt(R(0), Balance(mort'))
      ]_vars

\* C9 as amended: the same for an initial principal > 0.
C9_AmortizationPositivePrincipal ==
    [][(/\ mpc = "ready"
        /\ RLt(R(0), mort.monthly_rate)
        /\ RLt(R(0), mort.initial_value)
        /\ mort' # mort) =>
          /\ Balance(mort') =
                 RMul(RSub(Balance(mort), mort.monthly_payment),
                      RAdd(R(1), mort.monthly_rate))
          /\ Updates(mort') = mort.duration => Balance(mort') = R(0)
          /\ Updates(mort') < mort.duration => RLt(R(0), Balance(mort'))
      ]_vars

\* a loan of three months or more at a positive rate has been paid off
C9_Witness ==
    /\ mpc = "ready"
    /\ RLt(R(0), mort.monthly_rate)
    /\ RLt(R(0), mort.initial_value)
    /\ mort.duration >= 3
    /\ Updates(mort) = mort.duration

\* C10: whatever ran before on the instance, a simulation ends as it ends
\* when run alone on a freshly constructed Scenario with the same arguments:
\* the same exception or none, and the same capital series (for buying also
\* the same house, mortgage, municipal_taxes and net_asset_position).
C10_RunsAreIndependent ==
    /\ (pc = "idle" /\ call = "simulate_renting") =>
          Then(Scenario_init(args).obj, LAMBDA fresh :
          Then(simulate_renting(fresh), LAMBDA alone :
              /\ raised = alone.raised
              /\ self.capital = alone.obj.capital))
    /\ (pc = "idle" /\ call = "simulate_buying") =>
          Then(Scenario_init(args).obj, LAMBDA fresh :
          Then(simulate_buying(fresh), LAMBDA alone :
              /\ raised = alone.raised
              /\ self.capital = alone.obj.capital
              /\ self.house = alone.obj.house
              /\ self.mortgage = alone.obj.mortgage
              /\ self.municipal_taxes = alone.obj.municipal_taxes
              /\ self.net_asset_position = alone.obj.net_asset_position))

\* a renting run has completed on an instance that a buying run had used
C10_Witness ==
    /\ Completed("simulate_renting")
    /\ self.net_asset_position # EmptyDict
    /\ n_months >= 2

====
